---- MODULE Spec2Model ----
(***************************************************************************)
(* Model of the ExEnv environment of 2DSpatialAnalogies in its five        *)
(* variants: env.go ("env"), unnamed/part_001, part_002, part_003 and      *)
(* phase2/env_2.go ("phase2").  One ExEnv value is modelled; an action is  *)
(* one call of a method of ExEnv by the simulation engine.                 *)
(*                                                                         *)
(* Number representations:                                                 *)
(*   - encoder Min / Max / Sigma are kept in tenths (0.1 -> 1, 1.5 -> 15); *)
(*   - a Euclidean distance is kept as its square dx*dx + dy*dy;           *)
(*   - an angle is kept as a sector code c: an even c is exactly           *)
(*     c * 22.5 degrees, an odd c is the open interval                     *)
(*     ((c-1) * 22.5, (c+1) * 22.5) degrees, so 360 is code 16 and         *)
(*     adding or subtracting 360 is exact on codes.                        *)
(***************************************************************************)
EXTENDS Integers, Sequences, FiniteSets, TLC

VARIABLES
  variant,      \* which source file's ExEnv this is
  configured,   \* Config has been called
  status,       \* "ok", or how the last call ended: "panicked", "hung"
  Size, MinDist, MaxDist,
  pops,         \* encoder name -> [Min, Max, Sigma] in tenths
  shapes,       \* tensor name -> shape given by SetShape
  Run, Epoch, Trial,
  Point, Point2, Point3,
  distSq,       \* square of the dist / hypotDist passed to DistPop.Encode
  ang,          \* sector code of the ang passed to AnglePop.Encode
  Inp1Val, Inp2Val, DistVal,   \* phase2 values
  Face1Val, Face2Val,          \* phase2 letters
  bufs,         \* tensor name -> what its Values hold: [ones, encs]
  inited,       \* Init has been called, and Config has not been called since
  steps,        \* Step calls returned since the last Init or Config
  call,         \* the last call: [op, arg]
  ret           \* what the last call returned, as a tuple (<<>>: nothing)

vars == <<variant, configured, status, Size, MinDist, MaxDist, pops, shapes,
          Run, Epoch, Trial, Point, Point2, Point3, distSq, ang,
          Inp1Val, Inp2Val, DistVal, Face1Val, Face2Val, bufs,
          inited, steps, call, ret>>

-----------------------------------------------------------------------------
(* Bounds of the model *)

\* Spec, under which the sampling claims are checked: Config sizes are
\* 0..MaxSize, Centre - 1 and Centre, trial counts 0..MaxTrials, Init runs
\* 0..MaxRun; Init is called before the first Step only, and Step at most
\* MaxSteps times
MaxSize == 3
MaxTrials == 0
MaxRun == 0
MaxSteps == 1
\* SpecCtr, under which the counter claims are checked: long runs on the
\* smallest grid on which every variant's NewPoint can return (env.go needs
\* a second grid point that differs from the first)
MinGrid == 2
CtrMaxTrials == 5
CtrMaxRun == 1
CtrMaxSteps == 6
\* SpecCfg, under which the configuration claims are checked: sizes
\* -NegSize..CfgMaxSize
NegSize == 1
CfgMaxSize == 2
CfgMaxTrials == 1
CfgMaxSteps == 1
\* SpecQry, under which the lookup claims are checked: every scale and every
\* element name, on the grid of size MinGrid
QryMaxTrials == 1
QryMaxSteps == 1

Variants == {"env", "part_001", "part_002", "part_003", "phase2"}

-----------------------------------------------------------------------------
(* env.Ctr of the emergent library, as the environment uses it *)

Ctr0 == [Cur |-> 0, Prv |-> 0, Chg |-> FALSE, Max |-> 0]

\* ct.Init(): Prv = -1, Cur = 0, Chg = false
CtrInit(ct) == [ct EXCEPT !.Prv = -1, !.Cur = 0, !.Chg = FALSE]

\* ct.Same(): Chg = false
CtrSame(ct) == [ct EXCEPT !.Chg = FALSE]

\* Incr that wraps only after Cur has passed Max
CtrIncr_WrapAfterMax(ct) ==
  LET c    == ct.Cur + 1
      wrap == ct.Max > 0 /\ c > ct.Max
  IN  [ctr |-> [ct EXCEPT !.Chg = TRUE, !.Prv = ct.Cur,
                          !.Cur = IF wrap THEN 0 ELSE c],
       wrapped |-> wrap]

\* ct.Incr(): Chg = true, Prv = Cur, Cur++, wrapping to 0 at Max when Max > 0;
\* returns whether it wrapped
CtrIncr(ct) ==
  LET c    == ct.Cur + 1
      wrap == ct.Max > 0 /\ c >= ct.Max
  IN  [ctr |-> [ct EXCEPT !.Chg = TRUE, !.Prv = ct.Cur,
                          !.Cur = IF wrap THEN 0 ELSE c],
       wrapped |-> wrap]

\* ct.Query(): (Cur, Prv, Chg)
CtrQuery(ct) == <<ct.Cur, ct.Prv, ct.Chg>>

-----------------------------------------------------------------------------
(* Integer helpers *)

Abs(n) == IF n < 0 THEN -n ELSE n

\* floor(s * sqrt(2)) for s >= 0
FloorSqrt2(s) == CHOOSE k \in 0..(2 * s) : k * k <= 2 * s * s /\ (k + 1) * (k + 1) > 2 * s * s

\* int(float64(sz) * math.Sqrt(2)): the conversion truncates toward zero
MaxDistOf(sz) == IF sz >= 0 THEN FloorSqrt2(sz) ELSE -FloorSqrt2(-sz)

\* number of elements of a tensor of this shape (etensor Shape.Len)
RECURSIVE ShapeLen(_)
ShapeLen(sh) == IF sh = <<>> THEN 1 ELSE Head(sh) * ShapeLen(Tail(sh))

TLen(sh) == IF sh = <<>> THEN 0 ELSE ShapeLen(sh)

-----------------------------------------------------------------------------
(* Population encoders and tensors of each variant *)

\* a popcode encoder that was never set up (Go zero value)
PopZero == [Min |-> 0, Max |-> 0, Sigma |-> 0]

\* popcode Defaults(): Min = -0.5, Max = 1.5, Sigma = 0.2
PopDefaults == [Min |-> -5, Max |-> 15, Sigma |-> 2]

PopNames(v) ==
  CASE v = "env"      -> {"DistPop", "AnglePop", "AttnPop", "AlloInputPop", "EgoInputPop"}
    [] v = "part_001" -> {"DistPop", "Input1Pop", "Input2Pop"}
    [] v = "part_002" -> {"DistPop", "AnglePop", "AttnPop", "AlloInputPop", "EgoInputPop"}
    [] v = "part_003" -> {"DistPop", "AnglePop"}
    [] v = "phase2"   -> {"DistPop", "Input1Pop", "Input2Pop"}

TensorNames(v) ==
  CASE v = "env"      -> {"Attn", "EgoInput", "AlloInput", "Distance", "Angle"}
    [] v = "part_001" -> {"Input1", "Input2", "Distance"}
    [] v = "part_002" -> {"Attn", "EgoInput", "AlloInput", "Distance", "Angle"}
    [] v = "part_003" -> {"Input", "X", "Y", "Distance", "Angle"}
    [] v = "phase2"   -> {"Face1", "Face2", "Input1", "Input2", "Distance"}

\* the encoders as Config leaves them
ConfigPops(v, sz) ==
  LET md   == MaxDistOf(sz)
      dist == [PopDefaults EXCEPT !.Min = -md, !.Max = 11 * md]
      angl == [PopDefaults EXCEPT !.Min = 0, !.Max = 3600]
      inp  == [PopDefaults EXCEPT !.Min = 0, !.Max = 70]
  IN CASE v = "env" ->
            [n \in PopNames(v) |->
               IF n = "DistPop" THEN dist ELSE IF n = "AnglePop" THEN angl ELSE PopZero]
       [] v = "part_001" ->
            [n \in PopNames(v) |-> IF n = "DistPop" THEN dist ELSE inp]
       [] v = "part_002" ->
            [n \in PopNames(v) |->
               CASE n = "DistPop"      -> dist
                 [] n = "AnglePop"     -> angl
                 [] n = "AttnPop"      -> [Min |-> -10, Max |-> 10 * (sz + 3), Sigma |-> 2]
                 [] n = "AlloInputPop" -> [Min |-> -30, Max |-> 10 * (sz + 5), Sigma |-> 1]
                 [] n = "EgoInputPop"  -> [Min |-> 0, Max |-> 10 * (sz * 2 + 5), Sigma |-> 1]]
       [] v = "part_003" ->
            [n \in PopNames(v) |->
               IF n = "DistPop" THEN [PopDefaults EXCEPT !.Min = 0, !.Max = 11 * md]
                                ELSE [PopDefaults EXCEPT !.Min = -110, !.Max = 110]]
       [] v = "phase2" ->
            [n \in PopNames(v) |->
               IF n = "DistPop" THEN [Min |-> -40, Max |-> 40, Sigma |-> 1]
                                ELSE [Min |-> -20, Max |-> 52, Sigma |-> 1]]

\* the SetShape calls of Config, in the order of the code
ConfigShapeSeq(v, sz) ==
  CASE v = "env" ->
         << <<"EgoInput", <<sz * 2 - 1, sz * 2 - 1>> >>, <<"Attn", <<sz, sz>> >>,
            <<"AlloInput", <<sz, sz>> >>, <<"Distance", <<10>> >>, <<"Angle", <<24>> >> >>
    [] v = "part_001" ->
         << <<"Distance", <<10>> >>, <<"Input1", <<sz>> >>, <<"Input2", <<sz>> >> >>
    [] v = "part_002" ->
         << <<"EgoInput", <<sz * 2 - 1, sz * 2 - 1>> >>, <<"Attn", <<sz, sz>> >>,
            <<"AlloInput", <<sz + 3, sz + 3>> >>, <<"Distance", <<10>> >>, <<"Angle", <<24>> >> >>
    [] v = "part_003" ->
         << <<"Input", <<sz, sz>> >>, <<"X", <<sz>> >>, <<"Y", <<sz>> >>,
            <<"Distance", <<MaxDistOf(sz)>> >>, <<"Angle", <<10>> >> >>
    [] v = "phase2" ->
         << <<"Distance", <<16>> >>, <<"Face1", <<4>> >>, <<"Face2", <<4>> >>,
            <<"Input1", <<10>> >>, <<"Input2", <<10>> >> >>

\* etensor SetShape resizes Values to the product of the dimensions and
\* panics when that product is negative; index of the first such call, or 0
FirstBadShape(sq) ==
  IF \E i \in 1..Len(sq) : ShapeLen(sq[i][2]) < 0
    THEN CHOOSE i \in 1..Len(sq) :
           /\ ShapeLen(sq[i][2]) < 0
           /\ \A j \in 1..(i - 1) : ShapeLen(sq[j][2]) >= 0
    ELSE 0

\* the tensor shapes after the SetShape calls sq[1..n]
ShapesAfter(v, sq, n) ==
  [t \in TensorNames(v) |->
     IF \E i \in 1..n : sq[i][1] = t
       THEN sq[CHOOSE i \in 1..n : sq[i][1] = t][2]
       ELSE <<>>]

\* MinDist and MaxDist as Config sets them (a variant without the field keeps 0)
ConfigMinDist(v) ==
  CASE v \in {"part_001", "part_002"} -> 5
    [] v = "phase2" -> -4
    [] OTHER -> 0

ConfigMaxDist(v, sz) == IF v = "phase2" THEN 4 ELSE MaxDistOf(sz)

\* the (encoder, tensor) pairs NewPoint encodes into
EncTargets(v) ==
  CASE v \in {"env", "part_002"} ->
         {<<"DistPop", "Distance">>, <<"AnglePop", "Angle">>, <<"AttnPop", "Attn">>,
          <<"EgoInputPop", "EgoInput">>, <<"AlloInputPop", "AlloInput">>}
    [] v = "part_001" -> {}
    [] v = "part_003" -> {<<"DistPop", "Distance">>, <<"AnglePop", "Angle">>}
    [] v = "phase2" ->
         {<<"DistPop", "Distance">>, <<"Input1Pop", "Input1">>, <<"Input2Pop", "Input2">>}

-----------------------------------------------------------------------------
(* Construction and Config *)

Pt(x, y) == [X |-> x, Y |-> y]

\* what the Values of a tensor hold: the cells set to 1 by SetFloat, and the
\* values whose encodings are summed in it, in the order of the Encode calls.
\* A new tensor holds zeros
BufZero == [ones |-> {}, encs |-> <<>>]

Init ==
  /\ variant \in Variants
  /\ configured = FALSE
  /\ status = "ok"
  /\ Size = 0 /\ MinDist = 0 /\ MaxDist = 0
  /\ pops = [n \in PopNames(variant) |-> PopZero]
  /\ shapes = [t \in TensorNames(variant) |-> <<>>]
  /\ Run = Ctr0 /\ Epoch = Ctr0 /\ Trial = Ctr0
  /\ Point = Pt(0, 0) /\ Point2 = Pt(0, 0) /\ Point3 = Pt(0, 0)
  /\ distSq = 0 /\ ang = 0
  /\ Inp1Val = 0 /\ Inp2Val = 0 /\ DistVal = 0
  /\ Face1Val = "" /\ Face2Val = ""
  /\ bufs = [t \in TensorNames(variant) |-> BufZero]
  /\ inited = FALSE
  /\ steps = 0
  /\ call = [op |-> "new", arg |-> 0]
  /\ ret = <<>>

\* Config(sz, ntrls): one-time setup, returns nothing
Config(sz, ntrls) ==
  /\ status = "ok"
  /\ ~configured
  /\ LET sq  == ConfigShapeSeq(variant, sz)
         bad == FirstBadShape(sq)
     IN /\ shapes' = ShapesAfter(variant, sq, IF bad = 0 THEN Len(sq) ELSE bad)
        /\ status' = IF bad = 0 THEN "ok" ELSE "panicked"
  /\ configured' = TRUE
  /\ Size' = sz
  /\ MinDist' = ConfigMinDist(variant)
  /\ MaxDist' = ConfigMaxDist(variant, sz)
  /\ pops' = ConfigPops(variant, sz)
  /\ Trial' = [Trial EXCEPT !.Max = ntrls]
  /\ inited' = FALSE
  /\ steps' = 0
  /\ call' = [op |-> "Config", arg |-> sz]
  /\ ret' = <<>>
  /\ UNCHANGED <<variant, Run, Epoch, Point, Point2, Point3, distSq, ang,
                 Inp1Val, Inp2Val, DistVal, Face1Val, Face2Val, bufs>>

\* Validate(): an error exactly when Size == 0
ValidateErr == Size = 0

Validate ==
  /\ status = "ok"
  /\ call' = [op |-> "Validate", arg |-> 0]
  /\ ret' = IF ValidateErr THEN <<"error">> ELSE <<"nil">>
  /\ UNCHANGED <<variant, configured, status, Size, MinDist, MaxDist, pops, shapes,
                 Run, Epoch, Trial, Point, Point2, Point3, distSq, ang,
                 Inp1Val, Inp2Val, DistVal, Face1Val, Face2Val, bufs, inited, steps>>

\* Init(run): restart the counters.  reinit: whether the engine also calls
\* Init after it has called Step
\* Init without the line that sets Trial.Cur to -1
InitCtrs_TrialFromZero(run, rn, ep, tr) ==
  [Run   |-> [CtrInit(rn) EXCEPT !.Cur = run],
   Epoch |-> CtrInit(ep),
   Trial |-> CtrInit(tr)]

\* Init that does not restart the epoch counter
InitCtrs_KeepEpoch(run, rn, ep, tr) ==
  [Run   |-> [CtrInit(rn) EXCEPT !.Cur = run],
   Epoch |-> ep,
   Trial |-> [CtrInit(tr) EXCEPT !.Cur = -1]]

InitCtrs(run, rn, ep, tr) ==
  [Run   |-> [CtrInit(rn) EXCEPT !.Cur = run],
   Epoch |-> CtrInit(ep),
   Trial |-> [CtrInit(tr) EXCEPT !.Cur = -1]]

InitRun(run, reinit) ==
  /\ status = "ok"
  /\ reinit \/ steps = 0
  /\ LET c == InitCtrs(run, Run, Epoch, Trial)
     IN /\ Run' = c.Run
        /\ Epoch' = c.Epoch
        /\ Trial' = c.Trial
  /\ inited' = TRUE
  /\ steps' = 0
  /\ call' = [op |-> "Init", arg |-> run]
  /\ ret' = <<>>
  /\ UNCHANGED <<variant, configured, status, Size, MinDist, MaxDist, pops, shapes,
                 Point, Point2, Point3, distSq, ang, Inp1Val, Inp2Val, DistVal,
                 Face1Val, Face2Val, bufs>>

-----------------------------------------------------------------------------
(* Geometry of NewPoint *)

\* part_002: the hard-coded coordinate of the centre, Point3 = (8, 8) + offset
Centre == 8

\* the points rand.Intn(s) can produce for X and Y
Grid(s) == {Pt(x, y) : x \in 0..(s - 1), y \in 0..(s - 1)}

\* sector code of math.Atan2(y, x) in (-180, 180] degrees for y > 0
PosCode(y, x) ==
  IF x > 0 THEN (IF y < x THEN 1 ELSE IF y = x THEN 2 ELSE 3)
  ELSE IF x = 0 THEN 4
  ELSE (IF y > -x THEN 5 ELSE IF y = -x THEN 6 ELSE 7)

\* sector code of math.Atan2(y, x): Atan2(0, x >= 0) = 0, Atan2(0, x < 0) = 180,
\* Atan2(-y, x) = -Atan2(y, x)
Atan2Code(y, x) ==
  IF y = 0 THEN (IF x >= 0 THEN 0 ELSE 8)
  ELSE IF y > 0 THEN PosCode(y, x) ELSE -PosCode(-y, x)

\* the bearing with 360 - ang0 in place of 360 - |ang0| in the third branch
Bearing_NoAbs(xDistance, yDistance, xDist, yDist) ==
  LET a == Atan2Code(yDistance, xDistance)
  IN  IF xDistance >= 0 /\ yDistance >= 0 THEN a
      ELSE IF xDist < 0 /\ yDist >= 0 THEN a
      ELSE IF xDist >= 0 /\ yDist < 0 THEN 16 - a
      ELSE 16 + a

\* ang := ang0 + ang360 of NewPoint.  env.go tests xDist, yDist in all four
\* branches; part_002 tests xDistance, yDistance in the first branch and
\* xDist, yDist in the others, and takes Atan2 of (yDistance, xDistance)
Bearing(xDistance, yDistance, xDist, yDist) ==
  LET a == Atan2Code(yDistance, xDistance)
  IN  IF xDistance >= 0 /\ yDistance >= 0 THEN a
      ELSE IF xDist < 0 /\ yDist >= 0 THEN a
      ELSE IF xDist >= 0 /\ yDist < 0 THEN 16 - Abs(a)
      ELSE 16 + a

\* math.Hypot(dx, dy), squared
HypotSq(dx, dy) == dx * dx + dy * dy

\* etensor SetFloat(idx, v) writes Values[offset], offset the row-major
\* offset of idx (for a shape {n, m}: idx[1]*m + idx[2]), and panics when the
\* offset is outside Values
SetFloatOK(sh, idx) ==
  /\ Len(idx) = Len(sh)
  /\ LET off == IF Len(sh) = 1 THEN idx[1] ELSE idx[1] * sh[2] + idx[2]
     IN  0 <= off /\ off < TLen(sh)

\* a sequence of SetFloat calls <<shape, idx>>: "ok" when none panics
SetFloatsSt(calls) ==
  IF \A i \in 1..Len(calls) : SetFloatOK(calls[i][1], calls[i][2])
    THEN "ok" ELSE "panicked"

\* SetZeros without effect
SetZeros_Keep(b) == b

\* etensor SetZeros: every value becomes 0
SetZeros(b) == BufZero

\* etensor SetFloat(idx, 1)
SetOne(b, idx) == [b EXCEPT !.ones = @ \cup {idx}]

\* popcode Encode of val: with add the encoding is added to what the tensor
\* holds, without add it replaces every value.  The Encode calls that take no
\* add argument (env.go, part_003, Ring.Encode) replace every value
Encode(b, val, add) ==
  IF add THEN [b EXCEPT !.encs = Append(@, val)]
  ELSE [ones |-> {}, encs |-> <<val>>]

\* a panic ends the program: nothing reads the fields afterwards, and the
\* model keeps them as they were before the call
Panicked(cur) == [cur EXCEPT !.st = "panicked"]

\* the fields NewPoint writes, as they are before the call
CurFields ==
  [st |-> "ok", Point |-> Point, Point2 |-> Point2, Point3 |-> Point3,
   distSq |-> distSq, ang |-> ang, MinDist |-> MinDist, MaxDist |-> MaxDist,
   Inp1Val |-> Inp1Val, Inp2Val |-> Inp2Val, DistVal |-> DistVal,
   Face1Val |-> Face1Val, Face2Val |-> Face2Val, bufs |-> bufs]

\* Point3 taken from Size instead of Size - 1
EgoPoint_FromSize(s, xDist, yDist) == Pt(s + xDist, s + yDist)

\* env.go: Point3, the second point as seen from the first, the first being
\* put at the centre (Size - 1, Size - 1) of EgoInput
EgoPoint(s, xDist, yDist) == Pt(s - 1 + xDist, s - 1 + yDist)

\* env.go: EgoInput after SetZeros and the two SetFloat calls, before encoding
EgoInputSet(b, s, p3) ==
  SetOne(SetOne(SetZeros(b), <<s - 1, s - 1>>), <<p3.Y, p3.X>>)

\* env.go NewPoint, what it writes into the tensors: SetZeros and SetFloat
\* calls, then the Encode calls
BufsEnv(b, s, p, p2, p3, d, a) ==
  [b EXCEPT
     !["EgoInput"] = Encode(Encode(EgoInputSet(@, s, p3), <<s - 1, s - 1>>, FALSE),
                            <<p3.Y, p3.X>>, FALSE),
     !["Attn"] = Encode(SetOne(SetZeros(@), <<p.Y, p.X>>), <<p.Y, p.X>>, FALSE),
     !["AlloInput"] = Encode(Encode(SetOne(SetOne(SetZeros(@), <<p.Y, p.X>>),
                                           <<p2.Y, p2.X>>),
                                    <<p.Y, p.X>>, FALSE),
                             <<p2.Y, p2.X>>, FALSE),
     !["Distance"] = Encode(@, <<d>>, FALSE),
     !["Angle"] = Encode(@, <<a>>, FALSE)]

\* env.go NewPoint after the two points are drawn
FinishEnv(cur, s, sh, p, p2) ==
  LET xDist == p2.X - p.X
      yDist == p2.Y - p.Y
      p3    == EgoPoint(s, xDist, yDist)
      pts   == [cur EXCEPT !.Point = p, !.Point2 = p2, !.Point3 = p3]
      st    == SetFloatsSt(<< <<sh["Attn"], <<p.Y, p.X>> >>,
                               <<sh["AlloInput"], <<p.Y, p.X>> >>,
                               <<sh["AlloInput"], <<p2.Y, p2.X>> >>,
                               <<sh["EgoInput"], <<s - 1, s - 1>> >>,
                               <<sh["EgoInput"], <<p3.Y, p3.X>> >> >>)
  IN  IF st = "ok"
        THEN [pts EXCEPT !.distSq = HypotSq(xDist, yDist),
                         !.ang = Bearing(xDist, yDist, xDist, yDist),
                         !.bufs = BufsEnv(@, s, p, p2, p3, HypotSq(xDist, yDist),
                                          Bearing(xDist, yDist, xDist, yDist))]
        ELSE Panicked(cur)

\* env.go NewPoint: rand.Intn panics for s <= 0; Point2 is redrawn until it
\* differs from Point, which never happens when no other grid point exists
NewPointEnv(cur, s, sh) ==
  IF s <= 0 THEN {Panicked(cur)}
  ELSE UNION {LET cands == Grid(s) \ {p}
              IN  IF cands = {}
                    THEN {[cur EXCEPT !.st = "hung", !.Point = p, !.Point2 = p]}
                    ELSE {FinishEnv(cur, s, sh, p, p2) : p2 \in cands}
              : p \in Grid(s)}

\* part_001 NewPoint: the body is commented out
NewPoint001(cur) == {cur}

\* part_003 NewPoint, what it writes into the tensors
Bufs003(b, p, p2, d, a) ==
  [b EXCEPT
     !["Input"] = SetOne(SetOne(SetZeros(@), <<p.Y, p.X>>), <<p2.Y, p2.X>>),
     !["X"] = SetOne(SetOne(SetZeros(@), <<p.X>>), <<p2.X>>),
     !["Y"] = SetOne(SetOne(SetZeros(@), <<p.Y>>), <<p2.Y>>),
     !["Distance"] = Encode(@, <<d>>, FALSE),
     !["Angle"] = Encode(@, <<a>>, FALSE)]

\* part_003 NewPoint: two independent points, no rejection loop
NewPoint003(cur, s, sh) ==
  IF s <= 0 THEN {Panicked(cur)}
  ELSE {LET p   == pp[1]
             p2  == pp[2]
             pts == [cur EXCEPT !.Point = p, !.Point2 = p2]
             st  == SetFloatsSt(<< <<sh["Input"], <<p.Y, p.X>> >>,
                                    <<sh["Input"], <<p2.Y, p2.X>> >>,
                                    <<sh["X"], <<p.X>> >>, <<sh["X"], <<p2.X>> >>,
                                    <<sh["Y"], <<p.Y>> >>, <<sh["Y"], <<p2.Y>> >> >>)
         IN  IF st = "ok"
               THEN [pts EXCEPT !.distSq = HypotSq(p.X - p2.X, p.Y - p2.Y),
                                !.ang = Atan2Code(p2.Y - p.Y, p2.X - p.X),
                                !.bufs = Bufs003(@, p, p2,
                                                 HypotSq(p.X - p2.X, p.Y - p2.Y),
                                                 Atan2Code(p2.Y - p.Y, p2.X - p.X))]
               ELSE Panicked(cur)
         : pp \in Grid(s) \X Grid(s)}

\* letters that start at index 1
FaceLetter_FromOne(i) ==
  CASE i = 0 -> "" [] i = 1 -> "A" [] i = 2 -> "B" [] i = 3 -> "C"

\* phase2: the letter of a face index
FaceLetter(i) ==
  CASE i = 0 -> "A" [] i = 1 -> "B" [] i = 2 -> "C" [] i = 3 -> "D"

\* phase2 NewPoint, what it writes into the tensors
BufsPhase2(b, input1, input2) ==
  [b EXCEPT
     !["Face1"] = SetOne(SetZeros(@), <<input1>>),
     !["Face2"] = SetOne(SetZeros(@), <<input2>>),
     !["Input1"] = Encode(@, <<input1>>, FALSE),
     !["Input2"] = Encode(@, <<input2>>, FALSE),
     !["Distance"] = Encode(@, <<input2 - input1>>, FALSE)]

\* phase2 NewPoint: two different faces out of four
NewPointPhase2(cur, sh) ==
  UNION {LET cands == (0..3) \ {input1}
         IN  IF cands = {}
               THEN {[cur EXCEPT !.st = "hung"]}
               ELSE {LET st == SetFloatsSt(<< <<sh["Face1"], <<input1>> >>,
                                              <<sh["Face2"], <<input2>> >> >>)
                     IN  IF st = "ok"
                           THEN [cur EXCEPT !.DistVal = input2 - input1,
                                            !.Inp1Val = input1, !.Inp2Val = input2,
                                            !.Face1Val = FaceLetter(input1),
                                            !.Face2Val = FaceLetter(input2),
                                            !.bufs = BufsPhase2(@, input1, input2)]
                           ELSE Panicked(cur)
                     : input2 \in cands}
         : input1 \in 0..3}

\* offsets of a dist drawn without the lower end of the band
OffsetOK_NoMin(ox, oy, mn, mx) == ox * ox + oy * oy < mx * mx

\* part_002: whether (ox, oy) = (int(dist*cos(a)), int(dist*sin(a))) can come
\* out of dist = mn + r*(mx - mn), r in [0, 1), and an angle a in [0, 360).
\* The conversion truncates toward zero, so the reals that give (ox, oy) are
\* at distances [sqrt(n2), sqrt(s2)) from the origin
OffsetOK(ox, oy, mn, mx) ==
  LET n2 == ox * ox + oy * oy
      s2 == (Abs(ox) + 1) * (Abs(ox) + 1) + (Abs(oy) + 1) * (Abs(oy) + 1)
  IN  IF mx > mn THEN n2 < mx * mx /\ s2 > mn * mn           \* dist in [mn, mx)
      ELSE IF mx = mn THEN n2 <= mn * mn /\ s2 > mn * mn     \* dist = mn
      ELSE IF mx >= 0 THEN n2 <= mn * mn /\ s2 > mx * mx     \* dist in (mx, mn]
      ELSE IF -mx > mn THEN n2 < mx * mx                     \* (mx, mn] with mx < 0
      ELSE n2 <= mn * mn

Offsets(mn, mx) ==
  LET r == IF Abs(mx) > Abs(mn) THEN Abs(mx) ELSE Abs(mn)
  IN  {o \in (-r..r) \X (-r..r) : OffsetOK(o[1], o[2], mn, mx)}

\* part_002: int(float32(mn) + rand.Float32()*float32(mx - mn)) for mn >= 0:
\* the draw lies in [mn, mx), is mn, or lies in (mx, mn], and is truncated
PointRange(mn, mx) ==
  IF mx > mn THEN mn..(mx - 1)
  ELSE IF mx = mn THEN {mn}
  ELSE IF mx >= 0 THEN mx..mn
  ELSE (mx + 1)..mn

\* part_002: [minX, maxX] (and minY, maxY) from xDist (yDist)
MinOf(d) == IF d < 0 THEN Abs(d) ELSE 0

MaxOf(d, s) == IF d > 0 THEN s - d ELSE s

\* part_002 NewPoint, what it writes into the tensors
Bufs002(b, p, p2, p3, d, a) ==
  [b EXCEPT
     !["EgoInput"] = Encode(SetZeros(@), <<p3.Y, p3.X>>, TRUE),
     !["Attn"] = Encode(SetOne(SetZeros(@), <<p.Y, p.X>>), <<p.Y, p.X>>, FALSE),
     !["AlloInput"] = Encode(Encode(SetZeros(@), <<p.Y, p.X>>, FALSE),
                             <<p2.Y, p2.X>>, TRUE),
     !["Distance"] = Encode(@, <<d>>, FALSE),
     !["Angle"] = Encode(@, <<a>>, FALSE)]

\* part_002 NewPoint: dist and ang are drawn once, before the loop that waits
\* for Point3 to differ from (8, 8)
NewPoint002(cur, s, sh) ==
  LET base == [cur EXCEPT !.MinDist = 2, !.MaxDist = s - 1]
  IN  UNION {IF o = <<0, 0>>
               THEN {[base EXCEPT !.st = "hung", !.Point3 = Pt(Centre, Centre)]}
               ELSE LET p3    == Pt(Centre + o[1], Centre + o[2])
                        xDist == p3.X - s
                        yDist == p3.Y - s
                    IN  {LET p   == Pt(c[1], c[2])
                             p2  == Pt(p.X + xDist, p.Y + yDist)
                             pts == [base EXCEPT !.Point = p, !.Point2 = p2, !.Point3 = p3]
                             st  == SetFloatsSt(<< <<sh["Attn"], <<p.Y, p.X>> >> >>)
                         IN  IF st = "ok"
                               THEN [pts EXCEPT
                                       !.distSq = HypotSq(p2.X - p.X, p2.Y - p.Y),
                                       !.ang = Bearing(p2.X - p.X, p2.Y - p.Y, xDist, yDist),
                                       !.bufs = Bufs002(@, p, p2, p3,
                                                  HypotSq(p2.X - p.X, p2.Y - p.Y),
                                                  Bearing(p2.X - p.X, p2.Y - p.Y,
                                                          xDist, yDist))]
                               ELSE Panicked(cur)
                         : c \in PointRange(MinOf(xDist), MaxOf(xDist, s))
                                       \X PointRange(MinOf(yDist), MaxOf(yDist, s))}
             : o \in Offsets(2, s - 1)}

NewPoint(cur) ==
  CASE variant = "env"      -> NewPointEnv(cur, Size, shapes)
    [] variant = "part_001" -> NewPoint001(cur)
    [] variant = "part_002" -> NewPoint002(cur, Size, shapes)
    [] variant = "part_003" -> NewPoint003(cur, Size, shapes)
    [] variant = "phase2"   -> NewPointPhase2(cur, shapes)

-----------------------------------------------------------------------------
(* Step and the queries *)

\* the counter part of Step: Epoch.Same(), then Trial.Incr() and, when that
\* wrapped, Epoch.Incr()
\* Step that increments the epoch at every trial
StepCtrs_EpochEveryTrial(tr, ep) ==
  [Trial |-> CtrIncr(tr).ctr, Epoch |-> CtrIncr(CtrSame(ep)).ctr]

\* Step without Epoch.Same()
StepCtrs_NoSame(tr, ep) ==
  LET i == CtrIncr(tr)
  IN  [Trial |-> i.ctr, Epoch |-> IF i.wrapped THEN CtrIncr(ep).ctr ELSE ep]

StepCtrs(tr, ep) ==
  LET e0 == CtrSame(ep)
      i  == CtrIncr(tr)
  IN  [Trial |-> i.ctr,
       Epoch |-> IF i.wrapped THEN CtrIncr(e0).ctr ELSE e0]

\* Step(): Epoch.Same(), NewPoint(), the counters; returns true.  When
\* NewPoint panics or never returns, the counters are not advanced
Step(maxSteps) ==
  /\ status = "ok"
  /\ steps < maxSteps
  /\ \E o \in NewPoint(CurFields) :
       LET c == StepCtrs(Trial, Epoch)
       IN  /\ status' = o.st
           /\ Point' = o.Point /\ Point2' = o.Point2 /\ Point3' = o.Point3
           /\ distSq' = o.distSq /\ ang' = o.ang
           /\ MinDist' = o.MinDist /\ MaxDist' = o.MaxDist
           /\ Inp1Val' = o.Inp1Val /\ Inp2Val' = o.Inp2Val /\ DistVal' = o.DistVal
           /\ Face1Val' = o.Face1Val /\ Face2Val' = o.Face2Val
           /\ bufs' = o.bufs
           /\ Epoch' = IF o.st = "ok" THEN c.Epoch ELSE CtrSame(Epoch)
           /\ Trial' = IF o.st = "ok" THEN c.Trial ELSE Trial
           /\ steps' = IF o.st = "ok" THEN steps + 1 ELSE steps
           /\ ret' = IF o.st = "ok" THEN <<TRUE>> ELSE <<>>
  /\ call' = [op |-> "Step", arg |-> 0]
  /\ UNCHANGED <<variant, configured, Size, pops, shapes, Run, inited>>

\* the time scales a caller may ask for; the environment has the first three
Scales == {"Run", "Epoch", "Trial", "Event", "Sequence"}

\* Counter(scale): (cur, prv, chg) of the counter, or (-1, -1, false)
Counter(scale) ==
  CASE scale = "Run"   -> CtrQuery(Run)
    [] scale = "Epoch" -> CtrQuery(Epoch)
    [] scale = "Trial" -> CtrQuery(Trial)
    [] OTHER -> <<-1, -1, FALSE>>

CounterCall(scale) ==
  /\ status = "ok"
  /\ call' = [op |-> "Counter", arg |-> scale]
  /\ ret' = Counter(scale)
  /\ UNCHANGED <<variant, configured, status, Size, MinDist, MaxDist, pops, shapes,
                 Run, Epoch, Trial, Point, Point2, Point3, distSq, ang,
                 Inp1Val, Inp2Val, DistVal, Face1Val, Face2Val, bufs, inited, steps>>

\* State that answers an unknown name with the Distance tensor
StateTensor_DefaultDistance(v, element) == "Distance"

\* the element names State answers, and the tensor each one stands for
StateTensor(v, element) ==
  CASE v \in {"env", "part_002"}
         /\ element \in {"EgoInput", "Attn", "AlloInput", "Distance", "Angle"} -> element
    [] v = "part_001" /\ element = "Distance" -> "Distance"
    [] v = "part_001" /\ element = "Input 1"  -> "Input1"
    [] v = "part_001" /\ element = "Input 2"  -> "Input2"
    [] v = "part_003" /\ element \in {"Input", "X", "Y", "Distance", "Angle"} -> element
    [] v = "phase2" /\ element = "Distance" -> "Distance"
    [] v = "phase2" /\ element = "Input 1"  -> "Input1"
    [] v = "phase2" /\ element = "Input 2"  -> "Input2"
    [] v = "phase2" /\ element = "Face 1"   -> "Face1"
    [] v = "phase2" /\ element = "Face 2"   -> "Face2"
    [] OTHER -> "nil"

\* the names States() lists
StatesNames(v) ==
  CASE v \in {"env", "part_002"} -> {"EgoInput", "Attn", "AlloInput", "Distance", "Angle"}
    [] v = "part_001" -> {"Distance", "Input 1", "Input 2"}
    [] v = "part_003" -> {"Input", "X", "Y", "Distance", "Angle"}
    [] v = "phase2"   -> {"Distance", "Face 1", "Face 2", "Input 1", "Input 2"}

\* the shape States() lists for a name: {Size, Size} for the 2D elements and
\* {Size} for the others, in every variant
StatesShape(v, element, sz) ==
  IF element \in {"EgoInput", "Attn", "AlloInput", "Input"} THEN <<sz, sz>> ELSE <<sz>>

\* the element names a caller may ask for
Elements ==
  {"EgoInput", "Attn", "AlloInput", "Distance", "Angle", "Input", "X", "Y",
   "Input 1", "Input 2", "Face 1", "Face 2", "Input1", "Face1", "", "Output"}

StateCall(element) ==
  /\ status = "ok"
  /\ call' = [op |-> "State", arg |-> element]
  /\ ret' = <<StateTensor(variant, element)>>
  /\ UNCHANGED <<variant, configured, status, Size, MinDist, MaxDist, pops, shapes,
                 Run, Epoch, Trial, Point, Point2, Point3, distSq, ang,
                 Inp1Val, Inp2Val, DistVal, Face1Val, Face2Val, bufs, inited, steps>>

\* one call by the engine, its arguments drawn from the given sets
NextOf(sizes, trials, runs, reinit, maxSteps, scales, elements) ==
  \/ \E sz \in sizes, ntrls \in trials : Config(sz, ntrls)
  \/ Validate
  \/ \E run \in runs : InitRun(run, reinit)
  \/ Step(maxSteps)
  \/ \E scale \in scales : CounterCall(scale)
  \/ \E element \in elements : StateCall(element)

\* the small grids and the grids whose Size is the hard-coded centre of
\* part_002 or one less, a single Step, one scale and one element name
Next ==
  NextOf((0..MaxSize) \cup {Centre - 1, Centre}, 0..MaxTrials, 0..MaxRun, FALSE,
         MaxSteps, {"Trial"}, {"Distance"})

Spec == Init /\ [][Next]_vars

\* one small grid, long runs, the scales Step touches
NextCtr ==
  NextOf({MinGrid}, 0..CtrMaxTrials, 0..CtrMaxRun, TRUE, CtrMaxSteps, {"Trial", "Epoch"},
         {"Distance"})

SpecCtr == Init /\ [][NextCtr]_vars

\* sizes below and above zero, short runs
NextCfg ==
  NextOf((-NegSize)..CfgMaxSize, 0..CfgMaxTrials, 0..MaxRun, TRUE, CfgMaxSteps, {"Trial"},
         {"Distance"})

SpecCfg == Init /\ [][NextCfg]_vars

\* one small grid, short runs, every scale and element name
NextQry ==
  NextOf({MinGrid}, 0..QryMaxTrials, 0..MaxRun, TRUE, QryMaxSteps, Scales, Elements)

SpecQry == Init /\ [][NextQry]_vars

-----------------------------------------------------------------------------
(* The counters: claims C1 to C4, checked under SpecCtr *)

\* the Step that led to this state returned
Stepped == call.op = "Step" /\ status = "ok"

\* C1 as stated: after Config(size, 5) and Init(run), five Step calls leave
\* the trial counter at 0 and the epoch counter at 1
C1_FiveStepsWrap ==
  (configured /\ inited /\ status = "ok" /\ Trial.Max = 5 /\ steps = 5)
    => (Trial.Cur = 0 /\ Epoch.Cur = 1)

\* C1 as amended: after Config(size, 5) and Init(run), five Step calls leave
\* the trial counter at 4 and the epoch counter at 0, and the sixth Step wraps
\* the trial counter to 0 and makes the epoch counter 1
C1_SixStepsWrap ==
  (configured /\ inited /\ status = "ok" /\ Trial.Max = 5)
    => /\ steps = 5 => (Trial.Cur = 4 /\ Epoch.Cur = 0)
       /\ steps = 6 => (Trial.Cur = 0 /\ Epoch.Cur = 1)

C1_Witness ==
  /\ configured /\ inited /\ Stepped
  /\ Trial.Max = 5 /\ steps = 6
  /\ Trial.Cur = 0 /\ Epoch.Cur = 1

\* a Step that took the trial counter from a value >= 0 back to 0
Wrapped == status' = "ok" /\ Trial'.Cur = 0 /\ Trial.Cur >= 0

\* C2: every Step adds one to the epoch counter exactly when it wrapped the
\* trial counter back to 0 and leaves it alone otherwise; the epoch counter
\* has no maximum and never decreases; Step does not touch the run counter
C2_EpochFollowsWrap ==
  [][call'.op = "Step" =>
       /\ Epoch'.Cur = IF Wrapped THEN Epoch.Cur + 1 ELSE Epoch.Cur
       /\ Epoch'.Cur >= Epoch.Cur
       /\ Epoch.Max = 0 /\ Epoch'.Max = 0
       /\ Run' = Run]_vars

C2_Witness ==
  /\ Stepped
  /\ Trial.Cur = 0 /\ Trial.Prv = Trial.Max - 1 /\ Trial.Max >= 2
  /\ Epoch.Cur = 2 /\ Epoch.Prv = 1

\* C3: whatever was called before, Init(r) leaves run = r, epoch = 0,
\* trial = -1, previous values -1 and no changed flag: the counters that
\* Init(r) gives a newly configured environment
C3_InitResets ==
  call.op = "Init" =>
    /\ Run   = [Cur |-> call.arg, Prv |-> -1, Chg |-> FALSE, Max |-> 0]
    /\ Epoch = [Cur |-> 0, Prv |-> -1, Chg |-> FALSE, Max |-> 0]
    /\ Trial = [Cur |-> -1, Prv |-> -1, Chg |-> FALSE, Max |-> Trial.Max]

\* Init(1) on an environment that has stepped through an epoch
C3_Witness ==
  /\ call.op = "Init" /\ call.arg = 1
  /\ configured /\ Trial.Max = 2
  /\ Point # Point2
  /\ Epoch.Cur = 0 /\ Trial.Cur = -1

\* C4: after a Step, Counter(Trial) is (trial, trial before the Step, true)
\* and Counter(Epoch) reports a change exactly when the Step wrapped the
\* trial counter; a Counter call returns that and changes no counter
C4_CounterReportsStep ==
  [][/\ (call'.op = "Step" /\ status' = "ok") =>
          /\ Counter("Trial")' = <<Trial'.Cur, Trial.Cur, TRUE>>
          /\ Counter("Epoch")'[3] = Wrapped
          /\ Wrapped => Counter("Epoch")' = <<Epoch.Cur + 1, Epoch.Cur, TRUE>>
     /\ call'.op = "Counter" =>
          /\ ret' = Counter(call'.arg)
          /\ UNCHANGED <<Run, Epoch, Trial>>]_vars

\* Counter(Epoch) called after a Step that did not wrap, in the second epoch
C4_Witness ==
  /\ call.op = "Counter" /\ call.arg = "Epoch"
  /\ ret = <<1, 0, FALSE>>
  /\ Trial.Chg /\ Trial.Cur = 1

-----------------------------------------------------------------------------
(* The lookups: claim C5, checked under SpecQry *)

\* everything but the record of the last call and its result
state == <<variant, configured, status, Size, MinDist, MaxDist, pops, shapes,
           Run, Epoch, Trial, Point, Point2, Point3, distSq, ang,
           Inp1Val, Inp2Val, DistVal, Face1Val, Face2Val, bufs, inited, steps>>

\* C5: State(name) for a name that States() does not list returns nil,
\* Counter(scale) for a scale other than Run, Epoch, Trial returns
\* (-1, -1, false), and neither call changes a shape, point or counter
C5_LookupErrors ==
  [][/\ (call'.op = "State" /\ call'.arg \notin StatesNames(variant)) =>
          (ret' = <<"nil">> /\ UNCHANGED state)
     /\ (call'.op = "Counter" /\ call'.arg \notin {"Run", "Epoch", "Trial"}) =>
          (ret' = <<-1, -1, FALSE>> /\ UNCHANGED state)]_vars

\* phase2 asked for "Face1" (the output is named "Face 1") after a Step
C5_Witness ==
  /\ variant = "phase2" /\ steps = 1 /\ Inp1Val # Inp2Val
  /\ call.op = "State" /\ call.arg = "Face1"
  /\ ret = <<"nil">>

-----------------------------------------------------------------------------
(* Configuration: claims C6 and C7, checked under SpecCfg *)

\* C6 as stated: an environment configured with sz <= 0 has its
\* configuration reported as an error, and no Step returns on it
C6_NonPositiveRejected ==
  (configured /\ status = "ok" /\ Size <= 0) => (ValidateErr /\ ~Stepped)

\* an encoder and its tensor as the specification requires them
PopValid(e) ==
  /\ pops[e[1]].Min < pops[e[1]].Max
  /\ pops[e[1]].Sigma > 0
  /\ TLen(shapes[e[2]]) >= 1

\* C7 as stated: in a configured environment whose configuration is not
\* reported as an error, every encoder that Step encodes into has min < max
\* and sigma > 0, and its tensor has at least one unit
C7_EncodersValid ==
  (configured /\ status = "ok" /\ ~ValidateErr) =>
    \A e \in EncTargets(variant) : PopValid(e)

-----------------------------------------------------------------------------
(* Sampling: claims C8 to C10, checked under Spec *)

\* C8 as stated: no Step is caught in a loop that never ends
C8_NoHang == status # "hung"

\* C9: after a Step of env.go or part_002, the angle is in [0, 360): its
\* sector code is between 0 (0 degrees) and 15 (above 315, below 360)
C9_AngleInRange ==
  (Stepped /\ variant \in {"env", "part_002"}) => (0 <= ang /\ ang <= 15)

\* part_002, second point to the right of and below the first: the angle
\* is in the last sector
C9_Witness ==
  /\ Stepped /\ variant = "part_002"
  /\ Point2.X > Point.X /\ Point2.Y < Point.Y
  /\ ang = 15

\* C10 as stated: after a Step of env.go, part_002 or part_003 the distance
\* between the two points is at most Size * sqrt(2)
C10_DistWithinGrid ==
  (Stepped /\ variant \in {"env", "part_002", "part_003"}) =>
    distSq <= 2 * Size * Size

-----------------------------------------------------------------------------
(* The outputs listed by States: claim C11, checked under SpecCfg *)

\* C11 as stated: in a configured environment, every name States() lists is
\* answered by State with a tensor whose shape, as Config set it, is the
\* shape States() lists for it
C11_ListedShapes ==
  (configured /\ status = "ok") =>
    \A element \in StatesNames(variant) :
      /\ StateTensor(variant, element) # "nil"
      /\ shapes[StateTensor(variant, element)] = StatesShape(variant, element, Size)

-----------------------------------------------------------------------------
(* The sampled points: claims C12 and C15 to C18, checked under Spec *)

\* a point of the Size x Size grid
InGrid(p) == 0 <= p.X /\ p.X < Size /\ 0 <= p.Y /\ p.Y < Size

\* C12 as stated: after a Step of env.go, part_002 or part_003 that returned,
\* Point and Point2 are points of the Size x Size grid
C12_PointsInGrid ==
  (Stepped /\ variant \in {"env", "part_002", "part_003"}) =>
    (InGrid(Point) /\ InGrid(Point2))

-----------------------------------------------------------------------------
(* The content of the tensors: claim C13, checked under SpecCtr *)

\* the index (Y, X) of a point
Cell(p) == <<p.Y, p.X>>

\* a tensor that holds the encodings of the given values and nothing else
Holds(t, vals) == bufs[t] = [ones |-> {}, encs |-> vals]

\* a tensor that holds 1 in the given cells and 0 elsewhere
HoldsOnes(t, cells) == bufs[t] = [ones |-> cells, encs |-> <<>>]

\* C13: after a Step that returned, every tensor holds what this Step's
\* sample puts there and nothing of what it held before.  part_002 (the
\* variant that adds encodings): AlloInput holds the sum of the encodings of
\* Point and Point2, EgoInput the encoding of Point3, Attn that of Point.
\* env.go encodes without add, so the last encoding is what is left
C13_BuffersCleared ==
  Stepped =>
    CASE variant = "part_002" ->
           /\ Holds("AlloInput", <<Cell(Point), Cell(Point2)>>)
           /\ Holds("EgoInput", <<Cell(Point3)>>)
           /\ Holds("Attn", <<Cell(Point)>>)
           /\ Holds("Distance", << <<distSq>> >>)
           /\ Holds("Angle", << <<ang>> >>)
      [] variant = "env" ->
           /\ Holds("AlloInput", <<Cell(Point2)>>)
           /\ Holds("EgoInput", <<Cell(Point3)>>)
           /\ Holds("Attn", <<Cell(Point)>>)
           /\ Holds("Distance", << <<distSq>> >>)
           /\ Holds("Angle", << <<ang>> >>)
      [] variant = "part_003" ->
           /\ HoldsOnes("Input", {Cell(Point), Cell(Point2)})
           /\ HoldsOnes("X", {<<Point.X>>, <<Point2.X>>})
           /\ HoldsOnes("Y", {<<Point.Y>>, <<Point2.Y>>})
           /\ Holds("Distance", << <<distSq>> >>)
           /\ Holds("Angle", << <<ang>> >>)
      [] variant = "phase2" ->
           /\ HoldsOnes("Face1", {<<Inp1Val>>})
           /\ HoldsOnes("Face2", {<<Inp2Val>>})
           /\ Holds("Input1", << <<Inp1Val>> >>)
           /\ Holds("Input2", << <<Inp2Val>> >>)
           /\ Holds("Distance", << <<DistVal>> >>)
      [] variant = "part_001" ->
           \A t \in TensorNames(variant) : bufs[t] = BufZero

\* part_002 after the second Step of a run, the two points encoded in AlloInput
C13_Witness ==
  /\ Stepped /\ variant = "part_002" /\ steps = 2
  /\ bufs["AlloInput"].encs = <<Cell(Point), Cell(Point2)>>
  /\ bufs["EgoInput"].encs = <<Cell(Point3)>>

-----------------------------------------------------------------------------
(* The counters as a function of the number of Steps: claim C14, checked
   under SpecCtr *)

\* C14: after Init and k >= 1 Steps with n > 0 trials per epoch, the trial
\* counter is (k - 1) mod n, which is in 0..n-1, and the epoch counter is
\* (k - 1) div n; the first Step after Init yields trial 0
C14_CountersOfSteps ==
  (configured /\ inited /\ status = "ok" /\ steps >= 1 /\ Trial.Max > 0) =>
    /\ Trial.Cur = (steps - 1) % Trial.Max
    /\ Epoch.Cur = (steps - 1) \div Trial.Max
    /\ 0 <= Trial.Cur /\ Trial.Cur <= Trial.Max - 1
    /\ steps = 1 => Trial.Cur = 0

\* three trials per epoch, after the sixth Step: last trial of the second epoch
C14_Witness ==
  /\ configured /\ inited /\ Stepped
  /\ Trial.Max = 3 /\ steps = 6
  /\ Trial.Cur = 2 /\ Epoch.Cur = 1

-----------------------------------------------------------------------------
(* The sampled items differ: claim C15, checked under Spec *)

\* C15 as stated: after a Step that returned, Point and Point2 differ in
\* env.go and part_002 and their distance is not 0, and Inp1Val and Inp2Val
\* differ in phase2 and DistVal is not 0
C15_ItemsDiffer ==
  Stepped =>
    /\ variant \in {"env", "part_002"} => (Point # Point2 /\ distSq > 0)
    /\ variant = "phase2" => (Inp1Val # Inp2Val /\ DistVal # 0)

-----------------------------------------------------------------------------
(* The distance band of part_002: claim C16, checked under Spec *)

\* C16 as stated: after a Step of part_002 that returned, the band is
\* [MinDist, MaxDist] = [2, Size - 1] and the distance between Point and
\* Point2, which is what DistVal and the Distance tensor get, lies in it
C16_DistInBand ==
  (Stepped /\ variant = "part_002") =>
    /\ MinDist = 2 /\ MaxDist = Size - 1
    /\ MinDist * MinDist <= distSq
    /\ MaxDist >= 0 /\ distSq <= MaxDist * MaxDist

-----------------------------------------------------------------------------
(* The Point3 loop of part_002: claim C17, checked under Spec *)

\* C17: in part_002 with Size >= 3 the offset (0, 0) cannot come out of
\* dist >= 2, so the loop that waits for Point3 # (8, 8) ends at its first
\* pass: no Step is caught in it, and Point3 is not (8, 8) after a Step
C17_LoopEndsAtOnce ==
  (variant = "part_002" /\ configured /\ Size >= 3) =>
    /\ <<0, 0>> \notin Offsets(2, Size - 1)
    /\ status # "hung"
    /\ Stepped => Point3 # Pt(Centre, Centre)

\* the 3x3 grid, where dist is exactly 2: Point3 is one off the centre
C17_Witness ==
  /\ variant = "part_002" /\ Size = 3 /\ Stepped
  /\ Point3 = Pt(Centre + 1, Centre + 1)

-----------------------------------------------------------------------------
(* The egocentric point of env.go: claim C18, checked under Spec *)

\* C18: in env.go with Size >= 2 no SetFloat of NewPoint is out of range, and
\* after a Step Point3 = (Size-1+xDist, Size-1+yDist) is inside the shape
\* {2*Size-1, 2*Size-1} of EgoInput and is not the centre (Size-1, Size-1),
\* so that EgoInput has two cells set to 1 before the encoding
C18_EgoPointInside ==
  (variant = "env" /\ configured /\ Size >= 2) =>
    /\ status = "ok"
    /\ Stepped =>
         /\ Point3 = EgoPoint(Size, Point2.X - Point.X, Point2.Y - Point.Y)
         /\ shapes["EgoInput"] = <<2 * Size - 1, 2 * Size - 1>>
         /\ 0 <= Point3.Y /\ Point3.Y < shapes["EgoInput"][1]
         /\ 0 <= Point3.X /\ Point3.X < shapes["EgoInput"][2]
         /\ Point3 # Pt(Size - 1, Size - 1)
         /\ InGrid(Point) /\ InGrid(Point2)
         /\ Cardinality(EgoInputSet(bufs["EgoInput"], Size, Point3).ones) = 2

\* the 3x3 grid, Point in one corner and Point2 in the opposite one: Point3
\* is in a corner of EgoInput
C18_Witness ==
  /\ variant = "env" /\ Size = 3 /\ Stepped
  /\ Point = Pt(0, Size - 1) /\ Point2 = Pt(Size - 1, 0)
  /\ Point3 = Pt(2 * Size - 2, 0)

-----------------------------------------------------------------------------
(* The state of phase2 after a Step: claim C19, checked under SpecCtr *)

\* C19: after a Step of phase2, Face1 and Face2 have length 4 and hold a
\* single 1, at index Inp1Val and Inp2Val; Face1Val and Face2Val are the
\* letters A to D of these indices; DistVal = Inp2Val - Inp1Val is one of
\* -3, -2, -1, 1, 2, 3 and lies in [MinDist, MaxDist] = [-4, 4], the range of
\* the distance encoder
C19_Phase2Consistent ==
  (variant = "phase2" /\ Stepped) =>
    /\ Inp1Val \in 0..3 /\ Inp2Val \in 0..3
    /\ shapes["Face1"] = <<4>> /\ shapes["Face2"] = <<4>>
    /\ bufs["Face1"] = [ones |-> {<<Inp1Val>>}, encs |-> <<>>]
    /\ bufs["Face2"] = [ones |-> {<<Inp2Val>>}, encs |-> <<>>]
    /\ Face1Val = <<"A", "B", "C", "D">>[Inp1Val + 1]
    /\ Face2Val = <<"A", "B", "C", "D">>[Inp2Val + 1]
    /\ DistVal = Inp2Val - Inp1Val
    /\ DistVal \in {-3, -2, -1, 1, 2, 3}
    /\ MinDist = -4 /\ MaxDist = 4
    /\ MinDist <= DistVal /\ DistVal <= MaxDist
    /\ pops["DistPop"].Min = 10 * MinDist /\ pops["DistPop"].Max = 10 * MaxDist

\* the second Step of a run draws D and A
C19_Witness ==
  /\ variant = "phase2" /\ Stepped /\ steps = 2
  /\ Inp1Val = 3 /\ Inp2Val = 0 /\ DistVal = -3
  /\ Face1Val = "D" /\ Face2Val = "A"
  /\ bufs["Face1"].ones = {<<3>>} /\ bufs["Face2"].ones = {<<0>>}

====
